---- MODULE Spec2Model ----
(***************************************************************************)
(* Attendance aggregation of app/crud.py: create_daily_attendance turns    *)
(* the Attendance events of one user and one calendar date into a          *)
(* DailyAttendance row, create_weekly_attendance_or_update folds a daily   *)
(* total into the WeeklyAttendance bucket of the Monday..Sunday week.      *)
(*                                                                         *)
(* A datetime is a number of seconds since midnight of day 0; day 0 is a   *)
(* Monday, so datetime.weekday() is the day number modulo 7.               *)
(***************************************************************************)
EXTENDS Integers, Sequences, FiniteSets, TLC

VARIABLES
    attendance,  \* the Attendance table (models.py:126-130): a set of events
    daily,       \* the DailyAttendance table (models.py:149-153), in insertion order
    weekly,      \* the WeeklyAttendance table (models.py:181-185), in insertion order
    last,        \* the latest aggregation call: its arguments and what it returned
    ncalls,      \* the number of aggregation calls made
    folded,      \* per user and week, the number and the sum of the hours folded
    req          \* the weekly calls in progress, each in its own session

vars == <<attendance, daily, weekly, last, ncalls, folded, req>>

(***************************************************************************)
(* Calendar arithmetic of datetime / timedelta.                            *)
(***************************************************************************)
SecondsPerHour == 3600
SecondsPerDay == 86400
DaysPerWeek == 7
WeekSpanDays == 6

(***************************************************************************)
(* Bounds of the model.                                                    *)
(***************************************************************************)
MaxDay == 8
MaxCalls == 2
MaxEvents == 3
MaxDailyRows == 1
MaxPipelineCalls == 3
NumReqs == 3

\* user ids: the code only compares them for equality, so two stand for any number
Users == {1, 2}
Days == 0 .. MaxDay
Weeks == 0 .. (MaxDay \div DaysPerWeek)

\* times of day an input datetime may carry: 00:00:00, 09:00, 14:30, 23:59:59
Midnight == 0 * SecondsPerHour
Morning == 9 * SecondsPerHour
Afternoon == 14 * SecondsPerHour + SecondsPerHour \div 2
LastSecond == SecondsPerDay - 1

WeeklyTimes == {Morning, LastSecond}

\* daily hours a caller of the weekly aggregator passes
CallerHours == {3, 4}

At(day, tod) == day * SecondsPerDay + tod

\* the (full_name, attend_id) metadata a caller may pass
Meta == { [full_name |-> "A", attend_id |-> 1], [full_name |-> "B", attend_id |-> 2] }

\* datetime.date() and func.date(column): the calendar day, time of day dropped
DateOf(dt) == dt \div SecondsPerDay

\* datetime.weekday(): Monday = 0 .. Sunday = 6
Weekday(dt) == DateOf(dt) % DaysPerWeek

\* the week (number) of a calendar day
WeekOf(day) == day \div DaysPerWeek

\* crud.py:96  start_date = today - timedelta(days=today.weekday())
StartDateSundayBased(today) == today - ((Weekday(today) + 1) % DaysPerWeek) * SecondsPerDay

StartDate(today) == today - Weekday(today) * SecondsPerDay

\* crud.py:97  end_date = start_date + timedelta(days=6)
EndDateSevenDays(start_date) == start_date + (WeekSpanDays + 1) * SecondsPerDay

EndDate(start_date) == start_date + WeekSpanDays * SecondsPerDay

(***************************************************************************)
(* create_weekly_attendance_or_update                                      *)
(***************************************************************************)
\* crud.py:99-102  the WHERE clause of the lookup, on one row
CoversFullDatetime(row, user_id, date) ==
    /\ row.user_id = user_id
    /\ row.start_date <= date
    /\ row.end_date >= date

Covers(row, user_id, date) ==
    /\ row.user_id = user_id
    /\ DateOf(row.start_date) <= DateOf(date)
    /\ DateOf(row.end_date) >= DateOf(date)

\* crud.py:99-103  the rows the SELECT matches; .first() returns one of them
\* (no ORDER BY) or None when the set is empty
Matching(rows, user_id, date) ==
    { i \in 1 .. Len(rows) : Covers(rows[i], user_id, date) }

\* crud.py:105  db_weekly_attendance.weekly_attendance_hours += daily_attendance_hours,
\* written back by commit: only the changed attribute is updated.  `loaded` is
\* the value the session read at lookup time.
Assigned(row, loaded, daily_attendance_hours, full_name, attend_id) ==
    [row EXCEPT !.weekly_attendance_hours = daily_attendance_hours]

IncrementedOverwritingMeta(row, loaded, daily_attendance_hours, full_name, attend_id) ==
    [row EXCEPT !.weekly_attendance_hours = loaded + daily_attendance_hours,
                !.full_name = full_name, !.attend_id = attend_id]

Incremented(row, loaded, daily_attendance_hours, full_name, attend_id) ==
    [row EXCEPT !.weekly_attendance_hours = loaded + daily_attendance_hours]

\* crud.py:107-113  the new bucket
NewWeekly(user_id, full_name, attend_id, daily_attendance_hours, date) ==
    [ user_id |-> user_id,
      start_date |-> StartDate(date),
      end_date |-> EndDate(StartDate(date)),
      weekly_attendance_hours |-> daily_attendance_hours,
      full_name |-> full_name,
      attend_id |-> attend_id ]

NoCall == [op |-> "none", user_id |-> 0, date |-> 0, hours |-> 0, id |-> 0,
           created |-> FALSE, err |-> FALSE, check_in |-> 0, check_out |-> 0]

\* history of the folds: per user and week, how many calls were made and the
\* sum of the daily hours they passed
Fold(f, user_id, date, h) ==
    [f EXCEPT ![user_id][WeekOf(DateOf(date))] =
        [n |-> @.n + 1, total |-> @.total + h]]

\* crud.py:87-118, one call run to completion
create_weekly_attendance_or_update(user_id, full_name, attend_id, daily_attendance_hours, date) ==
    /\ \/ /\ Matching(weekly, user_id, date) # {}
          /\ \E i \in Matching(weekly, user_id, date) :
                /\ weekly' = [weekly EXCEPT ![i] =
                       Incremented(weekly[i], weekly[i].weekly_attendance_hours,
                                   daily_attendance_hours, full_name, attend_id)]
                /\ last' = [NoCall EXCEPT !.op = "weekly", !.user_id = user_id,
                               !.date = date, !.hours = daily_attendance_hours, !.id = i]
       \/ /\ Matching(weekly, user_id, date) = {}
          /\ weekly' = Append(weekly,
                 NewWeekly(user_id, full_name, attend_id, daily_attendance_hours, date))
          /\ last' = [NoCall EXCEPT !.op = "weekly", !.user_id = user_id,
                         !.date = date, !.hours = daily_attendance_hours,
                         !.id = Len(weekly) + 1, !.created = TRUE]
    /\ folded' = Fold(folded, user_id, date, daily_attendance_hours)
    /\ ncalls' = ncalls + 1
    /\ UNCHANGED <<attendance, daily, req>>

(***************************************************************************)
(* Attendance events and create_daily_attendance                           *)
(***************************************************************************)
\* the created_at stamps of the check-in / check-out events: three on day 0,
\* one at the first second of day 1
EventStamps == { At(0, Morning), At(0, Afternoon), At(0, LastSecond), At(1, Midnight) }

\* models.py:126-130  a check-in or check-out: one Attendance row
check(user_id, created_at) ==
    /\ Cardinality(attendance) < MaxEvents
    /\ [user_id |-> user_id, created_at |-> created_at] \notin attendance
    /\ attendance' = attendance \cup {[user_id |-> user_id, created_at |-> created_at]}
    /\ UNCHANGED <<daily, weekly, last, ncalls, folded, req>>

\* crud.py:67-70  the events the SELECT returns for the user and calendar date
DayEventsAnyUser(rows, user_id, date) ==
    { e \in rows : DateOf(e.created_at) = DateOf(date) }

DayEvents(rows, user_id, date) ==
    { e \in rows : e.user_id = user_id /\ DateOf(e.created_at) = DateOf(date) }

\* crud.py:75-76  db_attendance[0] and db_attendance[1]: the statement has no
\* ORDER BY, so the list may come back in any order and any two distinct rows of
\* the result may be the first two
FirstTwo(events) == { p \in events \X events : p[1] # p[2] }

\* models.py:145 and the migration, line 32: daily_attendance_hours is an Integer
\* column.  The float (seconds / 3600) is cast by the database on INSERT and
\* the row is read back by session.refresh; the cast yields an integer next to
\* the real value (which neighbour is the database's rounding rule).
IntegerColumn(seconds) ==
    IF seconds % SecondsPerHour = 0
    THEN { seconds \div SecondsPerHour }
    ELSE { seconds \div SecondsPerHour, seconds \div SecondsPerHour + 1 }

\* crud.py:61-85
create_daily_attendance(user_id, full_name, attend_id, date) ==
    /\ \/ /\ Cardinality(DayEvents(attendance, user_id, date)) < 2
          \* crud.py:72-73  raise ValueError: nothing is added to the session
          /\ last' = [NoCall EXCEPT !.op = "daily", !.user_id = user_id,
                         !.date = date, !.err = TRUE]
          /\ daily' = daily
       \/ /\ Cardinality(DayEvents(attendance, user_id, date)) >= 2
          /\ \E p \in FirstTwo(DayEvents(attendance, user_id, date)) :
             \E stored \in IntegerColumn(p[2].created_at - p[1].created_at) :
                /\ daily' = Append(daily,
                       [ user_id |-> user_id, full_name |-> full_name,
                         attend_id |-> attend_id, daily_attendance_hours |-> stored ])
                /\ last' = [NoCall EXCEPT !.op = "daily", !.user_id = user_id,
                               !.date = date, !.hours = stored, !.id = Len(daily) + 1,
                               !.created = TRUE,
                               !.check_in = p[1].created_at,
                               !.check_out = p[2].created_at]
    /\ ncalls' = ncalls + 1
    /\ UNCHANGED <<attendance, weekly, folded, req>>

(***************************************************************************)
(* Sequential use of the weekly aggregator, from an empty store.           *)
(***************************************************************************)
Init ==
    /\ attendance = {}
    /\ daily = << >>
    /\ weekly = << >>
    /\ last = NoCall
    /\ ncalls = 0
    /\ folded = [u \in Users |-> [w \in Weeks |-> [n |-> 0, total |-> 0]]]
    /\ req = << >>

WeeklyCall ==
    /\ ncalls < MaxCalls
    /\ \E u \in Users, m \in Meta, h \in CallerHours, d \in Days, t \in WeeklyTimes :
          create_weekly_attendance_or_update(u, m.full_name, m.attend_id, h, At(d, t))

Next == WeeklyCall

Spec == Init /\ [][Next]_vars

(***************************************************************************)
(* The pipeline: events are recorded, a day is aggregated, and the daily   *)
(* total returned by create_daily_attendance is folded into the week.      *)
(***************************************************************************)
CheckInOut ==
    \E u \in Users, t \in EventStamps : check(u, t)

\* the dates the pipeline is run for: day 0 and day 1, both in week 0
PipelineDates == { At(0, Afternoon), At(1, Midnight) }

\* the name and attend_id a user registered with
NameOf(u) == IF u = 1 THEN [full_name |-> "A", attend_id |-> 1]
                      ELSE [full_name |-> "B", attend_id |-> 2]

DailyCall ==
    /\ Len(daily) < MaxDailyRows
    /\ ncalls < MaxPipelineCalls
    /\ \E u \in Users, t \in PipelineDates :
          create_daily_attendance(u, NameOf(u).full_name, NameOf(u).attend_id, t)

\* the caller folds the hours of a DailyAttendance row it got back, with the
\* user's name and attend_id as they are at that moment.
\* the date may also be a wrong one: the Monday after
FoldDates == PipelineDates \cup { At(DaysPerWeek, Morning) }

FoldDaily ==
    /\ ncalls < MaxPipelineCalls
    /\ \E i \in 1 .. Len(daily), m \in Meta, t \in FoldDates :
          create_weekly_attendance_or_update(daily[i].user_id, m.full_name,
              m.attend_id, daily[i].daily_attendance_hours, t)

NextDaily == CheckInOut \/ DailyCall \/ FoldDaily

SpecDaily == Init /\ [][NextDaily]_vars

(***************************************************************************)
(* Concurrent requests: every request has its own session, so the SELECT   *)
(* (crud.py:99-103) and the commit (crud.py:104-115) of different calls    *)
(* interleave.  NumReqs calls for one user and one week, each with the     *)
(* same daily hours, start together on an empty weekly table.              *)
(***************************************************************************)
\* Monday morning and the last second of Sunday of week 0
ConcDates == { At(0, Morning), At(WeekSpanDays, LastSecond) }

Requests(user_id, hours) ==
    { [pc |-> "lookup", user_id |-> user_id, hours |-> hours, date |-> d,
       full_name |-> m.full_name, attend_id |-> m.attend_id,
       found |-> 0, loaded |-> 0] : d \in ConcDates, m \in Meta }

InitConc ==
    /\ attendance = {}
    /\ daily = << >>
    /\ weekly = << >>
    /\ last = NoCall
    /\ ncalls = 0
    /\ folded = [u \in Users |-> [w \in Weeks |-> [n |-> 0, total |-> 0]]]
    /\ \E u \in Users, h \in CallerHours : req \in [1 .. NumReqs -> Requests(u, h)]

\* crud.py:95-103  the lookup: the session loads the matched row, or None
Lookup(p) ==
    /\ req[p].pc = "lookup"
    /\ \/ /\ Matching(weekly, req[p].user_id, req[p].date) = {}
          /\ req' = [req EXCEPT ![p].pc = "write"]
       \/ \E i \in Matching(weekly, req[p].user_id, req[p].date) :
             req' = [req EXCEPT ![p].pc = "write", ![p].found = i,
                                ![p].loaded = weekly[i].weekly_attendance_hours]
    /\ UNCHANGED <<attendance, daily, weekly, last, ncalls, folded>>

\* crud.py:104-116  += on the loaded object or a new object, then add / commit
Write(p) ==
    /\ req[p].pc = "write"
    /\ \/ /\ req[p].found # 0
          /\ weekly' = [weekly EXCEPT ![req[p].found] =
                 Incremented(weekly[req[p].found], req[p].loaded, req[p].hours,
                             req[p].full_name, req[p].attend_id)]
       \/ /\ req[p].found = 0
          /\ weekly' = Append(weekly,
                 NewWeekly(req[p].user_id, req[p].full_name, req[p].attend_id,
                           req[p].hours, req[p].date))
    /\ req' = [req EXCEPT ![p].pc = "done"]
    /\ UNCHANGED <<attendance, daily, last, ncalls, folded>>

NextConc == \E p \in 1 .. NumReqs : Lookup(p) \/ Write(p)

SpecConc == InitConc /\ [][NextConc]_vars

(***************************************************************************)
(* Properties.  The helpers below are written from the statements, not     *)
(* from the operators of the model above.                                  *)
(***************************************************************************)
Monday(w) == w * DaysPerWeek
Sunday(w) == w * DaysPerWeek + 6

\* the buckets of user u whose date-only window meets week w
BucketsIn(u, w) ==
    { i \in 1 .. Len(weekly) :
         /\ weekly[i].user_id = u
         /\ \E d \in Monday(w) .. Sunday(w) :
               /\ weekly[i].start_date \div SecondsPerDay <= d
               /\ d <= weekly[i].end_date \div SecondsPerDay }

\* the buckets of user u whose date-only window contains calendar day d
BucketsOn(u, d) ==
    { i \in 1 .. Len(weekly) :
         /\ weekly[i].user_id = u
         /\ weekly[i].start_date \div SecondsPerDay <= d
         /\ d <= weekly[i].end_date \div SecondsPerDay }

IsWeeklyStep == ncalls' = ncalls + 1 /\ last'.op = "weekly"
IsDailyStep == ncalls' = ncalls + 1 /\ last'.op = "daily"

\* C1: after k >= 1 sequential calls for user u with dates in week W and daily
\* hours h1..hk, starting with no bucket for u in W, there is exactly one bucket
\* of u covering W and its weekly_attendance_hours is h1+...+hk; with no call
\* there is none.
C1_OneBucketHoldsTheSum ==
    \A u \in Users, w \in Weeks :
       IF folded[u][w].n = 0
       THEN BucketsIn(u, w) = {}
       ELSE /\ Cardinality(BucketsIn(u, w)) = 1
            /\ \A i \in BucketsIn(u, w) :
                  weekly[i].weekly_attendance_hours = folded[u][w].total

C1_Witness ==
    \E u \in Users :
       /\ folded[u][0].n = 2
       /\ folded[u][0].total = 7
       /\ Cardinality(BucketsIn(u, 0)) = 1
       /\ \A i \in BucketsIn(u, 0) : weekly[i].weekly_attendance_hours = 7

\* C4: no two buckets of one user cover the same calendar date.
C4_AtMostOneBucketPerDate ==
    \A u \in Users, d \in 0 .. (MaxDay + 2 * DaysPerWeek) :
       Cardinality(BucketsOn(u, d)) <= 1

C4_Witness ==
    \E u \in Users :
       /\ Cardinality(BucketsOn(u, 6)) = 1
       /\ Cardinality(BucketsOn(u, 7)) = 1
       /\ BucketsOn(u, 6) # BucketsOn(u, 7)

\* C5: a bucket created for input date d starts on the Monday of d's week
\* (d minus d.weekday() days), ends on the Sunday six days later, and its
\* date-only window contains d, whatever d's weekday and time of day.
C5_NewBucketIsMondayToSunday ==
    (last.op = "weekly" /\ last.created) =>
       LET r == weekly[last.id]
           day == last.date \div SecondsPerDay
       IN /\ r.start_date = last.date - (day % DaysPerWeek) * SecondsPerDay
          /\ (r.start_date \div SecondsPerDay) % DaysPerWeek = 0
          /\ r.end_date \div SecondsPerDay = r.start_date \div SecondsPerDay + 6
          /\ r.start_date \div SecondsPerDay <= day
          /\ day <= r.end_date \div SecondsPerDay
          /\ day - r.start_date \div SecondsPerDay < DaysPerWeek

\* a bucket was just created from a Wednesday, 23:59:59
C5_Witness ==
    /\ last.op = "weekly"
    /\ last.created
    /\ (last.date \div SecondsPerDay) % DaysPerWeek = 2
    /\ last.date % SecondsPerDay = SecondsPerDay - 1
    /\ weekly[last.id].start_date < last.date

\* C6: a call whose date is the Monday or the Sunday of an existing bucket of the
\* user, at any time of day, increments that bucket and creates none; a call
\* dated the day after its Sunday or the day before its Monday leaves it alone.
C6_BoundaryDatesMatch ==
    [][ IsWeeklyStep =>
          \A i \in 1 .. Len(weekly) :
             LET day == last'.date \div SecondsPerDay
                 mon == weekly[i].start_date \div SecondsPerDay
                 sun == weekly[i].end_date \div SecondsPerDay
             IN  weekly[i].user_id = last'.user_id =>
                   /\ day \in {mon, sun} =>
                         /\ Len(weekly') = Len(weekly)
                         /\ ~last'.created
                         /\ last'.id = i
                         /\ weekly'[i].weekly_attendance_hours =
                               weekly[i].weekly_attendance_hours + last'.hours
                   /\ day \in {mon - 1, sun + 1} =>
                         /\ last'.id # i
                         /\ weekly'[i] = weekly[i] ]_vars

\* a Sunday call, later in the day than the bucket's end_date, has matched the bucket
C6_Witness ==
    /\ last.op = "weekly"
    /\ ~last.created
    /\ last.date \div SecondsPerDay = weekly[last.id].end_date \div SecondsPerDay
    /\ last.date > weekly[last.id].end_date
    /\ Len(weekly) = 1

EventsOn(u, date) ==
    { e \in attendance :
         e.user_id = u /\ e.created_at \div SecondsPerDay = date \div SecondsPerDay }

\* C3: with 0 or 1 events of the user on the date, create_daily_attendance fails
\* and leaves the store as it was.
C3_InsufficientPersistsNothing ==
    [][ (IsDailyStep /\ Cardinality(EventsOn(last'.user_id, last'.date)) < 2) =>
          /\ last'.err
          /\ daily' = daily
          /\ attendance' = attendance
          /\ weekly' = weekly ]_vars

\* the call failed for a user with one event that day, while another user has
\* an event on that day and the user has one on the next day
C3_Witness ==
    /\ last.op = "daily"
    /\ last.err
    /\ Cardinality(EventsOn(last.user_id, last.date)) = 1
    /\ \E e \in attendance :
          /\ e.user_id # last.user_id
          /\ e.created_at \div SecondsPerDay = last.date \div SecondsPerDay
    /\ \E e \in attendance :
          /\ e.user_id = last.user_id
          /\ e.created_at \div SecondsPerDay # last.date \div SecondsPerDay

\* C8: a successful create_daily_attendance uses the two earliest events of the
\* day as check-in and check-out, so the hours are never negative.
C8_EarliestTwoAreUsed ==
    (last.op = "daily" /\ ~last.err) =>
       LET evs == { e.created_at : e \in EventsOn(last.user_id, last.date) }
       IN /\ \A t \in evs : last.check_in <= t
          /\ \A t \in evs \ {last.check_in} : last.check_out <= t
          /\ last.check_in <= last.check_out
          /\ last.hours >= 0

\* C9: the hours returned and stored are exactly (check-out - check-in) seconds
\* divided by 3600, fraction kept.
C9_HoursAreExact ==
    (last.op = "daily" /\ ~last.err) =>
       /\ last.hours * SecondsPerHour = last.check_out - last.check_in
       /\ daily[last.id].daily_attendance_hours = last.hours

\* C7: no step lowers the weekly_attendance_hours of a bucket or removes one.
C7_HoursNeverDecrease ==
    [][ /\ Len(weekly') >= Len(weekly)
        /\ \A i \in 1 .. Len(weekly) :
              weekly'[i].weekly_attendance_hours >= weekly[i].weekly_attendance_hours ]_vars

\* C2: once all NumReqs concurrent calls have returned there is exactly one
\* bucket, holding NumReqs times the daily hours.
C2_ConcurrentCallsConverge ==
    (\A p \in 1 .. NumReqs : req[p].pc = "done") =>
       /\ Len(weekly) = 1
       /\ weekly[1].weekly_attendance_hours = NumReqs * req[1].hours

====
